---- MODULE Spec2Model ----
(***************************************************************************)
(* Sales dashboard: the proxy gateway (server.js) that forwards to the     *)
(* external database API and shapes its rows into monthly, product and     *)
(* order views, and the dashboard's optimistic local update.               *)
(***************************************************************************)
EXTENDS Integers, Sequences, FiniteSets, TLC

\* ------------------------------------------------------------------ bounds

\* Longest row sequence the external query returns in Spec.
MaxRows == 3
\* Longest row sequence the external query returns in SpecLong.
MaxLongRows == 11
\* Largest number of orders the dashboard shows before submissions stop.
MaxClientOrders == 3
\* Longest row sequence behind the dashboard's initial load.
MaxClientRows == 2

\* --------------------------------------------------------------- JS values

\* undefined / null, and a present value
None == <<>>
Some(x) == <<x>>

\* The empty string of a date field; a date string "YYYY-MM-DD" is <<y, m, d>>.
EmptyDate == <<>>
IsoDate(y, m, d) == <<y, m, d>>

ShortMonth == <<"Jan", "Feb", "Mar", "Apr", "May", "Jun",
                "Jul", "Aug", "Sep", "Oct", "Nov", "Dec">>

\* new Date(date).toLocaleString("default", {month: "short", year: "numeric"})
MonthLabel(date) == <<ShortMonth[date[2]], date[1]>>

\* new Date(date).toLocaleDateString("en-PH", {year, month: "short", day})
FormatDate(date) == <<ShortMonth[date[2]], date[3], date[1]>>

\* amount.toLocaleString("en-PH", {style: "currency", currency: "PHP"})
FormatCurrency(amount) == <<"PHP", amount>>

\* (index + 1).toString().padStart(4, "0") prefixed with "#"
SequenceId(position) == <<"#", position \div 1000, (position \div 100) % 10,
                          (position \div 10) % 10, position % 10>>

\* Math.random() color of a new product bucket
Colors == {"#1a2b3c", "#f0e1d2"}

\* ------------------------------------------------------- external records

\* One page of the external database.  Each property is None when the key is
\* absent; otherwise Some(payload), whose payload is None when the typed
\* member (number, title, rich_text, date, select) is undefined or null.
Page(id, amount, name, product, date, select) ==
    [id |-> id, Amount |-> amount, Name |-> name, Product |-> product,
     OrderDate |-> date, Select |-> select]

Num(n) == Some(Some(n))
Text(s) == Some(Some(<<s>>))
EmptyArray == Some(Some(<<>>))
Untyped == Some(None)
DateStart(d) == Some(Some(d))
Uuid(s) == Some(<<s>>)
SelectName(s) == Some(Some(s))

\* page.properties["Amount"]?.number || 0
Amount(page) ==
    IF page.Amount = None THEN 0
    ELSE IF page.Amount[1] = None THEN 0
    ELSE page.Amount[1][1]

\* prop?.title[0] and prop?.rich_text[0] throw a TypeError when the property
\* is present but holds no array of that type.
IndexThrows(prop) == IF prop = None THEN FALSE ELSE prop[1] = None

\* prop?.title[0]?.text?.content || "Unknown"
TextContent(prop) ==
    IF prop = None THEN "Unknown"
    ELSE IF prop[1][1] = <<>> THEN "Unknown"
    ELSE IF prop[1][1][1] = "" THEN "Unknown"
    ELSE prop[1][1][1]

\* page.properties["Order Date"]?.date?.start || null
OrderDate(page) ==
    IF page.OrderDate = None THEN None
    ELSE IF page.OrderDate[1] = None THEN None
    ELSE IF page.OrderDate[1][1] = EmptyDate THEN None
    ELSE Some(page.OrderDate[1][1])

\* page.properties["Select"]?.select?.name || "Unknown"
PaymentMethod(page) ==
    IF page.Select = None THEN "Unknown"
    ELSE IF page.Select[1] = None THEN "Unknown"
    ELSE IF page.Select[1][1] = "" THEN "Unknown"
    ELSE page.Select[1][1]

\* The field extraction at the head of the rows.forEach callback.
Throws(page) == IndexThrows(page.Name) \/ IndexThrows(page.Product)

Normalize(page) ==
    [amount |-> Amount(page),
     customerName |-> TextContent(page.Name),
     productName |-> TextContent(page.Product),
     date |-> OrderDate(page),
     paymentMethod |-> PaymentMethod(page)]

\* -------------------------------------------------------------- aggregator

\* orders.length < 10
OrdersLimit == 10

\* Index of the first bucket named name, 0 when there is none (Array.find).
RECURSIVE FindFrom(_, _, _)
FindFrom(buckets, name, i) ==
    IF i > Len(buckets) THEN 0
    ELSE IF buckets[i].name = name THEN i
    ELSE FindFrom(buckets, name, i + 1)

Find(buckets, name) == FindFrom(buckets, name, 1)

\* StepMonthly with the revenue of an existing bucket assigned, not added to.
StepMonthlyOverwrite(monthly, sale) ==
    IF sale.date = None THEN monthly
    ELSE LET month == MonthLabel(sale.date[1])
             i == Find(monthly, month)
         IN IF i # 0
            THEN [monthly EXCEPT ![i] = [name |-> month, revenue |-> sale.amount,
                                         orders |-> @.orders + 1,
                                         customers |-> @.customers + 1]]
            ELSE Append(monthly, [name |-> month, revenue |-> sale.amount,
                                  orders |-> 1, customers |-> 1])

\* StepMonthly without the if (date) guard: new Date(null) is Jan 1970.
StepMonthlyNoDateGuard(monthly, sale) ==
    LET month == IF sale.date = None THEN <<"Jan", 1970>>
                 ELSE MonthLabel(sale.date[1])
        i == Find(monthly, month)
    IN IF i # 0
       THEN [monthly EXCEPT ![i] = [@ EXCEPT !.revenue = @ + sale.amount,
                                             !.orders = @ + 1,
                                             !.customers = @ + 1]]
       ELSE Append(monthly, [name |-> month, revenue |-> sale.amount,
                             orders |-> 1, customers |-> 1])

\* StepMonthly counting a customer only with the month's first sale.
StepMonthlyCustomersKept(monthly, sale) ==
    IF sale.date = None THEN monthly
    ELSE LET month == MonthLabel(sale.date[1])
             i == Find(monthly, month)
         IN IF i # 0
            THEN [monthly EXCEPT ![i] = [@ EXCEPT !.revenue = @ + sale.amount,
                                                  !.orders = @ + 1]]
            ELSE Append(monthly, [name |-> month, revenue |-> sale.amount,
                                  orders |-> 1, customers |-> 1])

\* The "Monthly data" block of the forEach callback.
StepMonthly(monthly, sale) ==
    IF sale.date = None THEN monthly
    ELSE LET month == MonthLabel(sale.date[1])
             i == Find(monthly, month)
         IN IF i # 0
            THEN [monthly EXCEPT ![i] = [@ EXCEPT !.revenue = @ + sale.amount,
                                                  !.orders = @ + 1,
                                                  !.customers = @ + 1]]
            ELSE Append(monthly, [name |-> month, revenue |-> sale.amount,
                                  orders |-> 1, customers |-> 1])

\* StepProducts without the find: every row pushes a bucket.
StepProductsAlwaysPush(products, sale, color) ==
    Append(products, [name |-> sale.productName, value |-> sale.amount,
                      color |-> color])

\* The "Product data" block of the forEach callback.
StepProducts(products, sale, color) ==
    LET i == Find(products, sale.productName)
    IN IF i # 0
       THEN [products EXCEPT ![i] = [@ EXCEPT !.value = @ + sale.amount]]
       ELSE Append(products, [name |-> sale.productName, value |-> sale.amount,
                              color |-> color])

\* The object pushed onto orders for the page at 0-based index.
OrderEntry(page, sale, index) ==
    [id |-> IF page.id # None THEN page.id[1] ELSE SequenceId(index + 1),
     customer |-> sale.customerName,
     amount |-> FormatCurrency(sale.amount),
     product |-> sale.productName,
     date |-> IF sale.date # None THEN FormatDate(sale.date[1]) ELSE <<"-">>,
     paymentMethod |-> sale.paymentMethod,
     status |-> "completed"]

\* StepOrders with orders.length <= 10.
StepOrdersOffByOne(orders, page, sale, index) ==
    IF Len(orders) <= OrdersLimit
    THEN Append(orders, OrderEntry(page, sale, index))
    ELSE orders

\* The "Orders" block of the forEach callback.
StepOrders(orders, page, sale, index) ==
    IF Len(orders) < OrdersLimit
    THEN Append(orders, OrderEntry(page, sale, index))
    ELSE orders

\* --------------------------------------------------------- proxy gateway

\* A JSON number and a JSON string of decimal digits in a request body.
JsNumber(n) == [t |-> "number", n |-> n, s |-> <<>>]
JsString(digits) == [t |-> "string", n |-> 0, s |-> digits]

RECURSIVE ParseDigits(_, _)
ParseDigits(digits, acc) ==
    IF digits = <<>> THEN acc
    ELSE ParseDigits(Tail(digits), 10 * acc + Head(digits))

\* parseFloat(amount), for a number or a non-empty string of digits
ParseFloat(v) == IF v.t = "number" THEN v.n ELSE ParseDigits(v.s, 0)

\* !amount : undefined, 0 and "" are falsy
AmountFalsy(a) ==
    IF a = None THEN TRUE
    ELSE IF a[1].t = "number" THEN a[1].n = 0
    ELSE a[1].s = <<>>

\* !field for a string field: undefined and "" are falsy
StringFalsy(f) == IF f = None THEN TRUE ELSE f[1] = ""

\* !date for a date string
DateFalsy(f) == IF f = None THEN TRUE ELSE f[1] = EmptyDate

\* MissingRequired without the paymentMethod test.
MissingRequiredNoPayment(body) ==
    \/ AmountFalsy(body.amount)
    \/ StringFalsy(body.customerName)
    \/ StringFalsy(body.productName)
    \/ DateFalsy(body.date)

\* !amount || !customerName || !productName || !date || !paymentMethod
MissingRequired(body) ==
    \/ AmountFalsy(body.amount)
    \/ StringFalsy(body.customerName)
    \/ StringFalsy(body.productName)
    \/ DateFalsy(body.date)
    \/ StringFalsy(body.paymentMethod)

\* The page-creation payload: each property carries the body's value as it
\* is (None where the body has none); the amount goes through parseFloat.
NotionData(body) ==
    [Amount |-> IF body.amount = None THEN None
                ELSE Some(ParseFloat(body.amount[1])),
     Name |-> body.customerName,
     Product |-> body.productName,
     OrderDate |-> body.date,
     Select |-> body.paymentMethod]

\* A failed axios call: None when no response was received (error.response
\* is undefined), else the external service's response.
NetworkError == None
ApiError(status, message) == Some([status |-> status, message |-> message])

\* PostErrorStatus that drops the external status.
PostErrorStatusAlways500(err) == 500

\* error.response?.status || 500 in the create handler's catch
PostErrorStatus(err) == IF err = None THEN 500 ELSE err[1].status

\* GetErrorStatus that propagates the external status as the create handler does.
GetErrorStatusPropagated(err) == IF err = None THEN 500 ELSE err[1].status

\* res.status(500) in the fetch handler's catch
GetErrorStatus(err) == 500

\* error.response?.data?.message || fallback
ErrorMessage(err, fallback) ==
    IF err = None THEN fallback
    ELSE IF err[1].message = None THEN fallback
    ELSE err[1].message[1]

\* error.response?.data
ErrorData(err) == IF err = None THEN None ELSE Some([message |-> err[1].message])

\* ------------------------------------------------------------------ state

VARIABLES
    req,            \* the inbound request being handled: [kind, body]
    pc,             \* where its handler stands
    outbound,       \* the outbound calls made for it, in order
    upstream,       \* how the awaited outbound call settled: None while pending
    rows,           \* fetch handler: response.data.results
    index,          \* fetch handler: number of rows the forEach has visited
    monthly,        \* fetch handler: const monthly
    products,       \* fetch handler: const products
    orders,         \* fetch handler: const orders
    res,            \* the response sent: None, or Some([status, body])
    monthlyData,    \* dashboard: useState monthlyData
    productData,    \* dashboard: useState productData
    recentOrders,   \* dashboard: useState recentOrders
    isLoading,      \* dashboard: useState isLoading
    error,          \* dashboard: useState error, None or Some(message)
    cache,          \* localStorage item 'cachedData', None when there is none
    clock,          \* the browser's clock, in ms
    route,          \* the path the page was loaded at
    fetches,        \* GET /proxy/notion requests of the dashboard in flight
    posts,          \* form submissions: the POST in flight and what followed
    submits,        \* number of form submissions that passed validation
    db,             \* rows of the external database, as its sorted query lists them
    lastRun         \* the previous successful run of the fetch handler

serverVars == <<req, pc, outbound, upstream, rows, index, monthly, products, orders, res>>
clientVars == <<monthlyData, productData, recentOrders>>
dashVars == <<isLoading, error, cache, clock, route, fetches, posts, submits, db>>
vars == <<serverVars, clientVars, dashVars, lastRun>>

\* ----------------------------------------------------------------- inputs

Jan5 == IsoDate(2025, 1, 5)
Jan20 == IsoDate(2025, 1, 20)
Feb1 == IsoDate(2025, 2, 1)

\* Pages the external query may return in Spec.
Pages ==
    { Page(Uuid("a"), Num(100), Text("Ann"), Text("Widget"), DateStart(Jan5), SelectName("Cash")),
      Page(Uuid("b"), Num(50), Text("Bob"), Text("Widget"), DateStart(Jan20), SelectName("GCash")),
      Page(Uuid("c"), Num(75), Text("Ann"), Text("Gadget"), DateStart(Feb1), SelectName("Cash")),
      Page(None, Num(50), Text("Bob"), Text("Gadget"), None, None),
      Page(None, None, None, None, None, None),
      Page(Uuid("d"), Num(0), Text(""), EmptyArray, DateStart(EmptyDate), SelectName("")),
      Page(Uuid("e"), Untyped, Text("Ann"), Text("Widget"), Untyped, Untyped),
      Page(Uuid("f"), Num(10), Untyped, Text("Widget"), DateStart(Jan5), SelectName("Cash")) }

\* Pages the external query may return in SpecLong.
LongPages ==
    { Page(Uuid("a"), Num(100), Text("Ann"), Text("Widget"), DateStart(Jan5), SelectName("Cash")),
      Page(None, Num(50), Text("Bob"), Text("Widget"), None, None) }

SeqsUpTo(S, n) == UNION { [1..k -> S] : k \in 0..n }

\* Request bodies of POST /proxy/notion.
Bodies ==
    [amount : {None, Some(JsNumber(0)), Some(JsNumber(100)),
               Some(JsString(<<>>)), Some(JsString(<<5, 0>>))},
     customerName : {None, Some(""), Some("Ann")},
     productName : {None, Some(""), Some("Widget")},
     date : {None, Some(EmptyDate), Some(Jan5)},
     paymentMethod : {None, Some(""), Some("Cash")}]

NoBody ==
    [amount |-> None, customerName |-> None, productName |-> None,
     date |-> None, paymentMethod |-> None]

Kinds == {"debug", "test-database", "health", "create", "fetch"}

\* Failures of an outbound call.
Errors ==
    { NetworkError,
      ApiError(401, Some("API token is invalid.")),
      ApiError(404, Some("Could not find database.")),
      ApiError(400, None) }

\* Identifiers the external service gives a created page.
PageIds == {"p1", "p2"}

\* -------------------------------------------------------------- handlers

\* The settled promise of the awaited axios call.
Resolved == Some([ok |-> TRUE, error |-> NetworkError])
Rejected(err) == Some([ok |-> FALSE, error |-> err])

Reply(status, body) == Some([status |-> status, body |-> body])

\* An inbound request reaches its route handler.
Receive(kind, body) ==
    /\ pc = "idle"
    /\ kind = "create" \/ body = NoBody
    /\ req' = [kind |-> kind, body |-> body]
    /\ pc' = "received"
    /\ outbound' = <<>>
    /\ upstream' = None
    /\ rows' = <<>>
    /\ index' = 0
    /\ monthly' = <<>>
    /\ products' = <<>>
    /\ orders' = <<>>
    /\ res' = None
    /\ UNCHANGED <<clientVars, dashVars, lastRun>>

\* app.get('/proxy/debug')
Debug ==
    /\ pc = "received" /\ req.kind = "debug"
    /\ res' = Reply(200, [route |-> "debug"])
    /\ pc' = "responded"
    /\ UNCHANGED <<req, outbound, upstream, rows, index, monthly, products, orders>>
    /\ UNCHANGED <<clientVars, dashVars, lastRun>>

\* app.get('/proxy/health')
Health ==
    /\ pc = "received" /\ req.kind = "health"
    /\ res' = Reply(200, [status |-> "healthy"])
    /\ pc' = "responded"
    /\ UNCHANGED <<req, outbound, upstream, rows, index, monthly, products, orders>>
    /\ UNCHANGED <<clientVars, dashVars, lastRun>>

\* app.get('/proxy/test-database'): the axios.get
TestDatabaseCall ==
    /\ pc = "received" /\ req.kind = "test-database"
    /\ outbound' = Append(outbound, [url |-> "databases/:id", method |-> "GET"])
    /\ pc' = "awaiting"
    /\ UNCHANGED <<req, upstream, rows, index, monthly, products, orders, res>>
    /\ UNCHANGED <<clientVars, dashVars, lastRun>>

TestDatabaseOk ==
    /\ pc = "awaiting" /\ req.kind = "test-database"
    /\ res' = Reply(200, [status |-> "success"])
    /\ pc' = "responded"
    /\ upstream' = Resolved
    /\ UNCHANGED <<req, outbound, rows, index, monthly, products, orders>>
    /\ UNCHANGED <<clientVars, dashVars, lastRun>>

TestDatabaseFail(err) ==
    /\ pc = "awaiting" /\ req.kind = "test-database"
    /\ res' = Reply(IF err = None THEN 500 ELSE err[1].status,
                    [status |-> "error",
                     message |-> ErrorMessage(err, "Failed to access database"),
                     details |-> ErrorData(err)])
    /\ pc' = "responded"
    /\ upstream' = Rejected(err)
    /\ UNCHANGED <<req, outbound, rows, index, monthly, products, orders>>
    /\ UNCHANGED <<clientVars, dashVars, lastRun>>

\* PostReject with the axios.post issued before the validation's return.
PostValidateForwardsAnyway ==
    /\ pc = "received" /\ req.kind = "create"
    /\ MissingRequired(req.body)
    /\ outbound' = Append(outbound, [url |-> "pages", method |-> "POST"])
    /\ res' = Reply(400, [status |-> "error", message |-> "Missing required fields"])
    /\ pc' = "responded"
    /\ UNCHANGED <<req, upstream, rows, index, monthly, products, orders>>
    /\ UNCHANGED <<clientVars, dashVars, lastRun>>

\* app.post('/proxy/notion'): the validation's early return
PostReject ==
    /\ pc = "received" /\ req.kind = "create"
    /\ MissingRequired(req.body)
    /\ res' = Reply(400, [status |-> "error", message |-> "Missing required fields"])
    /\ pc' = "responded"
    /\ UNCHANGED <<req, outbound, upstream, rows, index, monthly, products, orders>>
    /\ UNCHANGED <<clientVars, dashVars, lastRun>>

\* app.post('/proxy/notion'): notionData and the axios.post
PostForward ==
    /\ pc = "received" /\ req.kind = "create"
    /\ ~MissingRequired(req.body)
    /\ outbound' = Append(outbound, [url |-> "pages", method |-> "POST",
                                     data |-> NotionData(req.body)])
    /\ pc' = "awaiting"
    /\ UNCHANGED <<req, upstream, rows, index, monthly, products, orders, res>>
    /\ UNCHANGED <<clientVars, dashVars, lastRun>>

\* app.post('/proxy/notion'): the call resolved
PostOk(pageId) ==
    /\ pc = "awaiting" /\ req.kind = "create"
    /\ res' = Reply(200, [status |-> "success",
                          message |-> "Data successfully saved to Notion",
                          pageId |-> pageId])
    /\ pc' = "responded"
    /\ upstream' = Resolved
    /\ UNCHANGED <<req, outbound, rows, index, monthly, products, orders>>
    /\ UNCHANGED <<clientVars, dashVars, lastRun>>

\* app.post('/proxy/notion'): the catch block
PostFail(err) ==
    /\ pc = "awaiting" /\ req.kind = "create"
    /\ res' = Reply(PostErrorStatus(err),
                    [status |-> "error",
                     message |-> ErrorMessage(err, "Failed to create page in Notion"),
                     details |-> ErrorData(err)])
    /\ pc' = "responded"
    /\ upstream' = Rejected(err)
    /\ UNCHANGED <<req, outbound, rows, index, monthly, products, orders>>
    /\ UNCHANGED <<clientVars, dashVars, lastRun>>

\* app.get('/proxy/notion'): the axios.post of the query
GetQuery ==
    /\ pc = "received" /\ req.kind = "fetch"
    /\ outbound' = Append(outbound, [url |-> "databases/:id/query", method |-> "POST",
                                     data |-> [property |-> "Order Date",
                                               direction |-> "descending"]])
    /\ pc' = "awaiting"
    /\ UNCHANGED <<req, upstream, rows, index, monthly, products, orders, res>>
    /\ UNCHANGED <<clientVars, dashVars, lastRun>>

\* GetRows with monthly, products and orders kept outside the handler.
GetRowsSharedArrays(universe, maxLen) ==
    /\ pc = "awaiting" /\ req.kind = "fetch"
    /\ \E results \in SeqsUpTo(universe, maxLen) : rows' = results
    /\ index' = 0
    /\ monthly' = IF lastRun = None THEN <<>> ELSE lastRun[1].monthly
    /\ products' = IF lastRun = None THEN <<>> ELSE lastRun[1].products
    /\ orders' = <<>>
    /\ pc' = "scanning"
    /\ upstream' = Resolved
    /\ UNCHANGED <<req, outbound, res>>
    /\ UNCHANGED <<clientVars, dashVars, lastRun>>

\* app.get('/proxy/notion'): the query resolved; rows = response.data.results
GetRows(universe, maxLen) ==
    /\ pc = "awaiting" /\ req.kind = "fetch"
    /\ \E results \in SeqsUpTo(universe, maxLen) : rows' = results
    /\ index' = 0
    /\ monthly' = <<>>
    /\ products' = <<>>
    /\ orders' = <<>>
    /\ pc' = "scanning"
    /\ upstream' = Resolved
    /\ UNCHANGED <<req, outbound, res>>
    /\ UNCHANGED <<clientVars, dashVars, lastRun>>

\* The catch block of app.get('/proxy/notion')
GetCatch(err) ==
    Reply(GetErrorStatus(err),
          [success |-> FALSE,
           message |-> "Failed to fetch data from Notion",
           error |-> ErrorData(err)])

\* app.get('/proxy/notion'): the query rejected
GetFail(err) ==
    /\ pc = "awaiting" /\ req.kind = "fetch"
    /\ res' = GetCatch(err)
    /\ pc' = "responded"
    /\ upstream' = Rejected(err)
    /\ UNCHANGED <<req, outbound, rows, index, monthly, products, orders>>
    /\ UNCHANGED <<clientVars, dashVars, lastRun>>

\* One call of the rows.forEach callback.
ScanRow ==
    /\ pc = "scanning" /\ index < Len(rows)
    /\ ~Throws(rows[index + 1])
    /\ LET page == rows[index + 1]
           sale == Normalize(page)
       IN /\ monthly' = StepMonthly(monthly, sale)
          /\ \E color \in Colors : products' = StepProducts(products, sale, color)
          /\ orders' = StepOrders(orders, page, sale, index)
    /\ index' = index + 1
    /\ UNCHANGED <<req, pc, outbound, upstream, rows, res>>
    /\ UNCHANGED <<clientVars, dashVars, lastRun>>

\* The forEach callback throws a TypeError, caught by the handler's catch.
ScanThrow ==
    /\ pc = "scanning" /\ index < Len(rows)
    /\ Throws(rows[index + 1])
    /\ res' = GetCatch(NetworkError)
    /\ pc' = "responded"
    /\ UNCHANGED <<req, outbound, upstream, rows, index, monthly, products, orders>>
    /\ UNCHANGED <<clientVars, dashVars, lastRun>>

\* res.json({ success: true, monthly, products, orders })
GetRespond ==
    /\ pc = "scanning" /\ index = Len(rows)
    /\ res' = Reply(200, [success |-> TRUE, monthly |-> monthly,
                          products |-> products, orders |-> orders])
    /\ pc' = "responded"
    /\ UNCHANGED <<req, outbound, upstream, rows, index, monthly, products, orders>>
    /\ UNCHANGED <<clientVars, dashVars, lastRun>>

\* The handler has returned: its locals are gone and the next request is taken.
Return ==
    /\ pc = "responded"
    /\ req' = [kind |-> "none", body |-> NoBody]
    /\ pc' = "idle"
    /\ outbound' = <<>>
    /\ upstream' = None
    /\ rows' = <<>>
    /\ index' = 0
    /\ monthly' = <<>>
    /\ products' = <<>>
    /\ orders' = <<>>
    /\ res' = None
    /\ UNCHANGED <<clientVars, dashVars, lastRun>>

ServerInit ==
    /\ req = [kind |-> "none", body |-> NoBody]
    /\ pc = "idle"
    /\ outbound = <<>>
    /\ upstream = None
    /\ rows = <<>>
    /\ index = 0
    /\ monthly = <<>>
    /\ products = <<>>
    /\ orders = <<>>
    /\ res = None

ClientInit ==
    /\ monthlyData = <<>>
    /\ productData = <<>>
    /\ recentOrders = <<>>

\* The dashboard's further state where a specification leaves it aside.
DashIdle ==
    /\ isLoading = TRUE
    /\ error = None
    /\ cache = None
    /\ clock = 0
    /\ route = "/"
    /\ fetches = <<>>
    /\ posts = <<>>
    /\ submits = 0
    /\ db = <<>>
    /\ lastRun = None

Init == ServerInit /\ ClientInit /\ DashIdle

Next ==
    \/ \E kind \in Kinds, body \in Bodies \cup {NoBody} : Receive(kind, body)
    \/ Debug
    \/ Health
    \/ TestDatabaseCall
    \/ TestDatabaseOk
    \/ \E err \in Errors : TestDatabaseFail(err)
    \/ PostReject
    \/ PostForward
    \/ \E pageId \in PageIds : PostOk(pageId)
    \/ \E err \in Errors : PostFail(err)
    \/ GetQuery
    \/ GetRows(Pages, MaxRows)
    \/ \E err \in Errors : GetFail(err)
    \/ ScanRow
    \/ ScanThrow
    \/ GetRespond
    \/ Return

\* The gateway, one inbound request after another.
Spec == Init /\ [][Next]_vars

NextLong ==
    \/ Receive("fetch", NoBody)
    \/ GetQuery
    \/ GetRows(LongPages, MaxLongRows)
    \/ \E err \in Errors : GetFail(err)
    \/ ScanRow
    \/ GetRespond
    \/ Return

\* The fetch handler alone, over row sequences longer than the orders limit.
SpecLong == Init /\ [][NextLong]_vars

MaxTwiceRows == 2

\* Pages the external query may return in SpecTwice.
TwicePages ==
    { Page(Uuid("a"), Num(100), Text("Ann"), Text("Widget"), DateStart(Jan5), SelectName("Cash")),
      Page(Uuid("c"), Num(75), Text("Ann"), Text("Gadget"), DateStart(Feb1), SelectName("Cash")),
      Page(None, Num(50), Text("Bob"), Text("Gadget"), None, None) }

\* The handler of a successful fetch has returned; what it was given and
\* what it answered is kept for comparison with the next run.
ReturnRemember ==
    /\ pc = "responded"
    /\ req.kind = "fetch"
    /\ res[1].status = 200
    /\ lastRun' = Some([rows |-> rows, monthly |-> res[1].body.monthly,
                        products |-> res[1].body.products])
    /\ req' = [kind |-> "none", body |-> NoBody]
    /\ pc' = "idle"
    /\ outbound' = <<>>
    /\ upstream' = None
    /\ rows' = <<>>
    /\ index' = 0
    /\ monthly' = <<>>
    /\ products' = <<>>
    /\ orders' = <<>>
    /\ res' = None
    /\ UNCHANGED <<clientVars, dashVars>>

NextTwice ==
    \/ Receive("fetch", NoBody)
    \/ GetQuery
    \/ GetRows(TwicePages, MaxTwiceRows)
    \/ ScanRow
    \/ GetRespond
    \/ ReturnRemember

\* The fetch handler run again and again, each run after the previous one.
SpecTwice == Init /\ [][NextTwice]_vars

\* ------------------------------------------------------------- dashboard

\* const colors in Dashboard
PaletteColors == <<"#3B82F6", "#10B981", "#F59E0B", "#EF4444", "#8B5CF6", "#EC4899">>

\* The whole rows.forEach of the fetch handler over rows[from..], with the
\* color drawn for the page at each position.
RECURSIVE Aggregate(_, _, _, _)
Aggregate(results, colorAt, done, acc) ==
    IF done = Len(results) THEN acc
    ELSE LET page == results[done + 1]
             sale == Normalize(page)
         IN Aggregate(results, colorAt, done + 1,
                      [monthly |-> StepMonthly(acc.monthly, sale),
                       products |-> StepProducts(acc.products, sale, colorAt[done + 1]),
                       orders |-> StepOrders(acc.orders, page, sale, done)])

EmptyViews == [monthly |-> <<>>, products |-> <<>>, orders |-> <<>>]

\* Form contents (AddForm's formData): amount is the digits typed.
FormInputs ==
    [amount : {<<>>, <<0>>, <<5, 0>>},
     customerName : {"", "Ann", "Bob"},
     productName : {"", "Widget", "Gadget"},
     date : {EmptyDate, Jan20, Feb1},
     paymentMethod : {"", "Cash"}]

\* validateForm: no entry in newErrors
ValidateForm(formData) ==
    /\ formData.amount # <<>>
    /\ ParseDigits(formData.amount, 0) > 0
    /\ formData.customerName # ""
    /\ formData.productName # ""
    /\ formData.date # EmptyDate
    /\ formData.paymentMethod # ""

\* Date.now() at a submission
Timestamps == {1735689600}

\* recentOrders.some(order => order.customer === customerName)
ExistingCustomer(recent, customerName) ==
    \E i \in 1..Len(recent) : recent[i].customer = customerName

\* The setMonthlyData updater of handleFormSubmit.
UpdateMonthlyData(prev, recent, formData) ==
    LET amountNum == ParseDigits(formData.amount, 0)
        month == MonthLabel(formData.date)
        i == Find(prev, month)
    IN IF i # 0
       THEN [k \in 1..Len(prev) |->
                IF prev[k].name = month
                THEN [prev[k] EXCEPT
                         !.revenue = @ + amountNum,
                         !.orders = @ + 1,
                         !.customers = IF ExistingCustomer(recent, formData.customerName)
                                       THEN @ ELSE @ + 1]
                ELSE prev[k]]
       ELSE Append(prev, [name |-> month, revenue |-> amountNum,
                          orders |-> 1, customers |-> 1])

\* The setProductData updater of handleFormSubmit.
UpdateProductData(prev, formData) ==
    LET amountNum == ParseDigits(formData.amount, 0)
        i == Find(prev, formData.productName)
    IN IF i # 0
       THEN [k \in 1..Len(prev) |->
                IF prev[k].name = formData.productName
                THEN [prev[k] EXCEPT !.value = @ + amountNum]
                ELSE prev[k]]
       ELSE Append(prev, [name |-> formData.productName, value |-> amountNum,
                          color |-> PaletteColors[(Len(prev) % Len(PaletteColors)) + 1]])

UpdateRecentOrdersKeepTen(prev, formData, now) ==
    <<[id |-> <<"new-", now>>,
       customer |-> formData.customerName,
       amount |-> FormatCurrency(ParseDigits(formData.amount, 0)),
       product |-> formData.productName,
       date |-> FormatDate(formData.date),
       paymentMethod |-> formData.paymentMethod,
       status |-> "completed"]>>
    \o SubSeq(prev, 1, IF Len(prev) < 10 THEN Len(prev) ELSE 10)

\* The setRecentOrders updater of handleFormSubmit.
UpdateRecentOrders(prev, formData, now) ==
    <<[id |-> <<"new-", now>>,
       customer |-> formData.customerName,
       amount |-> FormatCurrency(ParseDigits(formData.amount, 0)),
       product |-> formData.productName,
       date |-> FormatDate(formData.date),
       paymentMethod |-> formData.paymentMethod,
       status |-> "completed"]>>
    \o SubSeq(prev, 1, IF Len(prev) < 9 THEN Len(prev) ELSE 9)

\* fetchData: the initial load succeeded with the gateway's views of results.
FetchDataOk(results, colorAt) ==
    /\ monthlyData = <<>> /\ productData = <<>> /\ recentOrders = <<>>
    /\ \A i \in 1..Len(results) : ~Throws(results[i])
    /\ LET data == Aggregate(results, colorAt, 0, EmptyViews)
       IN /\ monthlyData' = data.monthly
          /\ productData' = data.products
          /\ recentOrders' = data.orders
    /\ UNCHANGED <<serverVars, dashVars, lastRun>>

\* handleFormSubmit(formData), called by AddForm once validateForm passed.
HandleFormSubmit(formData) ==
    /\ ValidateForm(formData)
    /\ Len(recentOrders) < MaxClientOrders
    /\ monthlyData' = UpdateMonthlyData(monthlyData, recentOrders, formData)
    /\ productData' = UpdateProductData(productData, formData)
    /\ \E now \in Timestamps :
          recentOrders' = UpdateRecentOrders(recentOrders, formData, now)
    /\ UNCHANGED <<serverVars, dashVars, lastRun>>

NextClient ==
    \/ \E results \in SeqsUpTo(Pages, MaxClientRows) :
          \E colorAt \in [1..Len(results) -> Colors] : FetchDataOk(results, colorAt)
    \/ \E formData \in FormInputs : HandleFormSubmit(formData)

\* The dashboard: an initial load followed by optimistic submissions.
SpecClient == Init /\ [][NextClient]_vars

\* ---------------------------------------------------- the page in a browser

MaxClock == 3600000
MaxSubmits == 1
MaxFetches == 2
MaxDashRows == 1

\* <Routes>: "/" mounts Dashboard, "/add-product" mounts AddForm alone.
Routes == {"/", "/add-product"}

\* What Dashboard renders: the spinner while isLoading, the error screen with
\* Retry while error is set, else the dashboard with Refresh and the modal.
ScreenNeverLoading(path, loading, err) ==
    IF path = "/add-product" THEN "form"
    ELSE IF err # None THEN "error"
    ELSE "dashboard"

Screen(path, loading, err) ==
    IF path = "/add-product" THEN "form"
    ELSE IF loading THEN "loading"
    ELSE IF err # None THEN "error"
    ELSE "dashboard"

\* The parsed value of the localStorage item 'cachedData'; JSON.stringify and
\* JSON.parse keep arrays of records of strings and numbers as they are.
CacheEntry(data, timestamp) ==
    [parses |-> TRUE, monthly |-> data.monthly, products |-> data.products,
     orders |-> data.orders, timestamp |-> timestamp]

\* An item that JSON.parse rejects.
Unparseable ==
    [parses |-> FALSE, monthly |-> <<>>, products |-> <<>>, orders |-> <<>>,
     timestamp |-> 0]

\* cachedData && JSON.parse succeeds && getTime() - parsedData.timestamp < 3600000
CacheFreshInclusive(item, t) ==
    IF item = None THEN FALSE
    ELSE item[1].parses /\ t - item[1].timestamp <= 3600000

CacheFresh(item, t) ==
    IF item = None THEN FALSE
    ELSE item[1].parses /\ t - item[1].timestamp < 3600000

\* Steps of the clock between two events.
Ticks == {3599999, 3600000}

\* Rows of the external database when the page is first loaded.
DashPages ==
    { Page(Uuid("a"), Num(100), Text("Ann"), Text("Widget"), DateStart(Jan5), SelectName("Cash")),
      Page(None, Num(50), Text("Bob"), Text("Widget"), None, None) }

\* Forms the user submits on the page.
DashForms ==
    { f \in FormInputs : /\ f.customerName = "Ann"
                         /\ f.productName = "Widget"
                         /\ f.paymentMethod = "Cash"
                         /\ f.amount # <<>> }

\* The color Math.random() draws for a product bucket of the page's fetches;
\* the page only passes it on.
DashColors == {"#1a2b3c"}

\* Identifiers the external service gives the pages created, in order.
NewPageIds == <<"p1", "p2", "p3", "p4">>

DateValue(d) == IF d = None THEN 0 ELSE (d[1][1] * 12 + d[1][2]) * 31 + d[1][3]

\* sorts: Order Date descending; rows without a date come last.
Sorted(results) ==
    \A i \in 1..(Len(results) - 1) :
        DateValue(OrderDate(results[i])) >= DateValue(OrderDate(results[i + 1]))

\* The query's list once the page has been created.
InsertRow(results, page) ==
    LET before == { i \in 1..Len(results) :
                      DateValue(OrderDate(results[i])) > DateValue(OrderDate(page)) }
        k == Cardinality(before)
    IN SubSeq(results, 1, k) \o <<page>> \o SubSeq(results, k + 1, Len(results))

\* JSON.stringify(formData) as the gateway's req.body
FormBody(formData) ==
    [amount |-> Some(JsString(formData.amount)),
     customerName |-> Some(formData.customerName),
     productName |-> Some(formData.productName),
     date |-> Some(formData.date),
     paymentMethod |-> Some(formData.paymentMethod)]

\* The page the external service stores for notionData.
CreatedPage(body, pageId) ==
    LET data == NotionData(body)
    IN Page(Uuid(pageId), Some(data.Amount), Some(Some(<<data.Name[1]>>)),
            Some(Some(<<data.Product[1]>>)), Some(data.OrderDate), Some(data.Select))

RemoveAt(s, i) == SubSeq(s, 1, i - 1) \o SubSeq(s, i + 1, Len(s))

\* A GET /proxy/notion of the dashboard, awaiting its response.
Fetch(origin) == [origin |-> origin, reply |-> None]

\* How a GET settles: "ok" is 200 with success true and the views, "error" is
\* the handler's 500 with success false, "network" is a rejected fetch,
\* "garbled" is a body that res.json() cannot parse.
GetReply(kind, data) == [kind |-> kind, data |-> data]

\* The page is loaded at a path: state is as useState gives it, and the
\* useEffect of Dashboard has started fetchData.
Mount(path) ==
    /\ route' = path
    /\ monthlyData' = <<>>
    /\ productData' = <<>>
    /\ recentOrders' = <<>>
    /\ isLoading' = TRUE
    /\ error' = None
    /\ fetches' = IF path = "/" THEN <<Fetch("initial")>> ELSE <<>>
    /\ posts' = <<>>

DashInitOver(dbs) ==
    /\ route = "/"
    /\ monthlyData = <<>>
    /\ productData = <<>>
    /\ recentOrders = <<>>
    /\ isLoading = TRUE
    /\ error = None
    /\ fetches = <<Fetch("initial")>>
    /\ posts = <<>>
    /\ submits = 0
    /\ clock = 0
    /\ cache \in {None, Some(Unparseable)}
    /\ db \in dbs
    /\ lastRun = None

\* The user loads the page again.
Reload(path) ==
    /\ Mount(path)
    /\ UNCHANGED <<serverVars, cache, clock, submits, db, lastRun>>

Tick(d) ==
    /\ clock + d <= MaxClock
    /\ clock' = clock + d
    /\ UNCHANGED <<serverVars, clientVars, isLoading, error, cache, route,
                   fetches, posts, submits, db, lastRun>>

\* The gateway answers the i-th GET in flight, or the connection fails.
ServeGet(i, kind, colorAt) ==
    /\ fetches[i].reply = None
    /\ kind = "ok" => \A k \in 1..Len(db) : ~Throws(db[k])
    /\ fetches' = [fetches EXCEPT ![i].reply =
                      Some(GetReply(kind,
                                    IF kind = "ok"
                                    THEN Aggregate(db, colorAt, 0, EmptyViews)
                                    ELSE EmptyViews))]
    /\ UNCHANGED <<serverVars, clientVars, isLoading, error, cache, clock, route,
                   posts, submits, db, lastRun>>

\* fetchData after its await: the try block to its end, or the catch block,
\* then finally.
FetchDataSettle(i) ==
    /\ fetches[i].origin = "initial"
    /\ fetches[i].reply # None
    /\ LET reply == fetches[i].reply[1]
       IN IF reply.kind = "ok"
          THEN /\ monthlyData' = reply.data.monthly
               /\ productData' = reply.data.products
               /\ recentOrders' = reply.data.orders
               /\ cache' = Some(CacheEntry(reply.data, clock))
               /\ error' = error
          ELSE /\ error' = Some(IF reply.kind = "error" THEN "Server returned 500"
                                ELSE IF reply.kind = "garbled" THEN "Unexpected token"
                                ELSE "Failed to fetch")
               /\ IF CacheFresh(cache, clock)
                  THEN /\ monthlyData' = cache[1].monthly
                       /\ productData' = cache[1].products
                       /\ recentOrders' = cache[1].orders
                  ELSE UNCHANGED clientVars
               /\ cache' = cache
    /\ isLoading' = FALSE
    /\ fetches' = RemoveAt(fetches, i)
    /\ UNCHANGED <<serverVars, clock, route, posts, submits, db, lastRun>>

\* refreshData up to its await: Refresh on the dashboard, Retry on the error
\* screen.
RefreshData ==
    /\ Screen(route, isLoading, error) \in {"dashboard", "error"}
    /\ Len(fetches) < MaxFetches
    /\ isLoading' = TRUE
    /\ error' = None
    /\ fetches' = Append(fetches, Fetch("refresh"))
    /\ UNCHANGED <<serverVars, clientVars, cache, clock, route, posts, submits,
                   db, lastRun>>

\* refreshData after its await.
RefreshSettleWritesCache(i) ==
    /\ fetches[i].origin = "refresh"
    /\ fetches[i].reply # None
    /\ LET reply == fetches[i].reply[1]
       IN IF reply.kind = "ok"
          THEN /\ monthlyData' = reply.data.monthly
               /\ productData' = reply.data.products
               /\ recentOrders' = reply.data.orders
               /\ cache' = Some(CacheEntry(reply.data, clock))
               /\ error' = error
          ELSE /\ UNCHANGED <<clientVars, cache>>
               /\ error' = IF reply.kind \in {"network", "garbled"}
                           THEN Some("Failed to refresh data") ELSE error
    /\ isLoading' = FALSE
    /\ fetches' = RemoveAt(fetches, i)
    /\ UNCHANGED <<serverVars, clock, route, posts, submits, db, lastRun>>

\* RefreshSettle with success false handled as a failure.
RefreshSettleErrorOnFailure(i) ==
    /\ fetches[i].origin = "refresh"
    /\ fetches[i].reply # None
    /\ LET reply == fetches[i].reply[1]
       IN IF reply.kind = "ok"
          THEN /\ monthlyData' = reply.data.monthly
               /\ productData' = reply.data.products
               /\ recentOrders' = reply.data.orders
               /\ error' = error
          ELSE /\ UNCHANGED clientVars
               /\ error' = Some("Failed to refresh data")
    /\ isLoading' = FALSE
    /\ fetches' = RemoveAt(fetches, i)
    /\ UNCHANGED <<serverVars, cache, clock, route, posts, submits, db, lastRun>>

RefreshSettle(i) ==
    /\ fetches[i].origin = "refresh"
    /\ fetches[i].reply # None
    /\ LET reply == fetches[i].reply[1]
       IN IF reply.kind = "ok"
          THEN /\ monthlyData' = reply.data.monthly
               /\ productData' = reply.data.products
               /\ recentOrders' = reply.data.orders
               /\ error' = error
          ELSE /\ UNCHANGED clientVars
               /\ error' = IF reply.kind \in {"network", "garbled"}
                           THEN Some("Failed to refresh data") ELSE error
    /\ isLoading' = FALSE
    /\ fetches' = RemoveAt(fetches, i)
    /\ UNCHANGED <<serverVars, cache, clock, route, posts, submits, db, lastRun>>

\* A submission of AddForm: the form, the recentOrders that the onSubmit it
\* was given closes over, where the form is mounted, and what followed.
Submission(formData, recent, mount, n) ==
    [formData |-> formData, recent |-> recent, mount |-> mount, n |-> n,
     reply |-> None, settled |-> FALSE, applied |-> 0,
     showSuccess |-> FALSE, showError |-> FALSE]

\* The form can be submitted: it is on screen and not yet submitting.
FormOpen ==
    IF route = "/add-product"
    THEN \A j \in 1..Len(posts) : posts[j].settled
    ELSE Screen(route, isLoading, error) = "dashboard"

\* handleSubmit up to its await, with validateForm as the mounted form runs it.
HandleSubmitWith(formData, valid) ==
    /\ FormOpen
    /\ submits < MaxSubmits
    /\ IF valid
       THEN /\ posts' = Append(posts,
                               Submission(formData, recentOrders,
                                          IF route = "/" THEN "modal" ELSE "route",
                                          submits + 1))
            /\ submits' = submits + 1
       ELSE UNCHANGED <<posts, submits>>
    /\ UNCHANGED <<serverVars, clientVars, isLoading, error, cache, clock, route,
                   fetches, db, lastRun>>

HandleSubmit(formData) == HandleSubmitWith(formData, ValidateForm(formData))

\* The gateway answers the j-th POST: the page is created ("ok"), the
\* external call fails ("error"), or the connection fails ("network").
ServePost(j, kind) ==
    /\ posts[j].reply = None
    /\ LET body == FormBody(posts[j].formData)
       IN /\ kind = "ok" => ~MissingRequired(body)
          /\ db' = IF kind = "ok"
                   THEN InsertRow(db, CreatedPage(body, NewPageIds[posts[j].n]))
                   ELSE db
    /\ posts' = [posts EXCEPT ![j].reply = Some(kind)]
    /\ UNCHANGED <<serverVars, clientVars, isLoading, error, cache, clock, route,
                   fetches, submits, lastRun>>

\* handleSubmit after its await. In the modal onSubmit is handleFormSubmit of
\* the render that mounted the form; on /add-product there is no onSubmit and
\* the call throws, in the try block and again in the catch block.
HandleSubmitSettle(j) ==
    /\ posts[j].reply # None
    /\ ~posts[j].settled
    /\ LET post == posts[j]
       IN IF post.mount = "modal"
          THEN /\ monthlyData' = UpdateMonthlyData(monthlyData, post.recent, post.formData)
               /\ productData' = UpdateProductData(productData, post.formData)
               /\ recentOrders' = UpdateRecentOrders(recentOrders, post.formData, clock)
               /\ posts' = [posts EXCEPT ![j].settled = TRUE,
                                         ![j].applied = @ + 1,
                                         ![j].showSuccess = TRUE,
                                         ![j].showError = (post.reply[1] # "ok")]
          ELSE /\ UNCHANGED clientVars
               /\ posts' = [posts EXCEPT ![j].settled = TRUE,
                                         ![j].showError = TRUE]
    /\ UNCHANGED <<serverVars, isLoading, error, cache, clock, route, fetches,
                   submits, db, lastRun>>

ReplyKinds == {"ok", "error", "network"}

GetReplyKinds == ReplyKinds \cup {"garbled"}

DashDbs == { r \in SeqsUpTo(DashPages, MaxDashRows) : Sorted(r) }

DashInit == ServerInit /\ DashInitOver(DashDbs)

NextDash ==
    \/ \E path \in Routes : Reload(path)
    \/ \E d \in Ticks : Tick(d)
    \/ \E i \in 1..Len(fetches) : \E kind \in GetReplyKinds :
          \E colorAt \in [1..Len(db) -> DashColors] : ServeGet(i, kind, colorAt)
    \/ \E i \in 1..Len(fetches) : FetchDataSettle(i)
    \/ RefreshData
    \/ \E i \in 1..Len(fetches) : RefreshSettle(i)
    \/ \E formData \in DashForms : HandleSubmit(formData)
    \/ \E j \in 1..Len(posts) : \E kind \in ReplyKinds : ServePost(j, kind)
    \/ \E j \in 1..Len(posts) : HandleSubmitSettle(j)

\* Databases of about the orders limit of rows.
LongDbs ==
    { r \in SeqsUpTo(LongPages, MaxLongRows) :
         Len(r) >= MaxLongRows - 1 /\ Sorted(r) }

\* Forms submitted over them.
LongForms == { f \in DashForms : f.date = Jan20 }

DashLongInit == ServerInit /\ DashInitOver(LongDbs)

NextDashLong ==
    \/ \E i \in 1..Len(fetches) : \E kind \in GetReplyKinds :
          \E colorAt \in [1..Len(db) -> DashColors] : ServeGet(i, kind, colorAt)
    \/ \E i \in 1..Len(fetches) : FetchDataSettle(i)
    \/ RefreshData
    \/ \E i \in 1..Len(fetches) : RefreshSettle(i)
    \/ \E formData \in LongForms : HandleSubmit(formData)
    \/ \E j \in 1..Len(posts) : \E kind \in ReplyKinds : ServePost(j, kind)
    \/ \E j \in 1..Len(posts) : HandleSubmitSettle(j)

\* One visit of the dashboard over a database of about the orders limit.
SpecDashLong == DashLongInit /\ [][NextDashLong]_vars

\* The page: loads, refreshes, the cache, and submissions of the form.
SpecDash == DashInit /\ [][NextDash]_vars

\* ----------------------------------------------------------------- claims

RECURSIVE SumField(_, _)
SumField(buckets, field) ==
    IF buckets = <<>> THEN 0
    ELSE buckets[1][field] + SumField(Tail(buckets), field)

RECURSIVE SumAmounts(_, _)
SumAmounts(results, datedOnly) ==
    IF results = <<>> THEN 0
    ELSE LET sale == Normalize(results[1])
         IN (IF datedOnly /\ sale.date = None THEN 0 ELSE sale.amount)
            + SumAmounts(Tail(results), datedOnly)

FetchSucceeded ==
    /\ pc = "responded"
    /\ req.kind = "fetch"
    /\ res[1].status = 200

\* C1: in every successful response of GET /proxy/notion, the revenue of the
\* returned monthly buckets adds up to the amounts of exactly the rows whose
\* date is not null.
C1_MonthlyRevenueIsDatedAmount ==
    FetchSucceeded =>
        SumField(res[1].body.monthly, "revenue") = SumAmounts(rows, TRUE)

\* C1 witness: a response over two rows of one month and an undated row that
\* carries an amount.
C1_Witness ==
    /\ FetchSucceeded
    /\ Len(res[1].body.monthly) = 1
    /\ res[1].body.monthly[1].orders = 2
    /\ \E i \in 1..Len(rows) :
          Normalize(rows[i]).date = None /\ Normalize(rows[i]).amount > 0

\* C2: in every successful response of GET /proxy/notion, the value of the
\* returned product buckets adds up to the amounts of all rows, dated or not,
\* and no two product buckets have the same name.
C2_ProductValueIsAllAmount ==
    FetchSucceeded =>
        LET buckets == res[1].body.products
        IN /\ SumField(buckets, "value") = SumAmounts(rows, FALSE)
           /\ \A i, j \in 1..Len(buckets) :
                 buckets[i].name = buckets[j].name => i = j

\* C2 witness: two rows of one product, one of them undated with an amount.
C2_Witness ==
    /\ FetchSucceeded
    /\ Len(rows) = 2
    /\ Len(res[1].body.products) = 1
    /\ Normalize(rows[1]).amount > 0
    /\ Normalize(rows[2]).date = None /\ Normalize(rows[2]).amount > 0

\* C3: the orders of a successful response of GET /proxy/notion are the
\* entries of the first min(10, n) rows, in the order of the rows.
C3_OrdersAreFirstTenRows ==
    FetchSucceeded =>
        LET list == res[1].body.orders
        IN /\ Len(list) = IF Len(rows) < 10 THEN Len(rows) ELSE 10
           /\ \A i \in 1..Len(list) :
                 list[i] = OrderEntry(rows[i], Normalize(rows[i]), i - 1)

\* C3 witness: a response over more than ten rows.
C3_Witness ==
    /\ FetchSucceeded
    /\ Len(rows) > 10
    /\ Len(res[1].body.orders) = 10

ValueOf(buckets, name) ==
    LET i == Find(buckets, name) IN IF i = 0 THEN 0 ELSE buckets[i].value

\* C4: the visit of a row whose date is null leaves the monthly buckets as
\* they are, adds the row's amount to the bucket of its product, and, when
\* fewer than 10 orders exist, appends an order entry whose date is "-".
C4_NullDateRow ==
    [][ (pc = "scanning" /\ index' = index + 1
           /\ Normalize(rows[index + 1]).date = None)
        => LET sale == Normalize(rows[index + 1])
           IN /\ monthly' = monthly
              /\ ValueOf(products', sale.productName)
                    = ValueOf(products, sale.productName) + sale.amount
              /\ IF Len(orders) < 10
                 THEN /\ Len(orders') = Len(orders) + 1
                      /\ SubSeq(orders', 1, Len(orders)) = orders
                      /\ orders'[Len(orders')].date = <<"-">>
                      /\ orders'[Len(orders')].customer = sale.customerName
                 ELSE orders' = orders ]_vars

\* C4 witness: an undated row visited after a dated one, with its order entry
\* and its amount in the product bucket, and the month bucket still alone.
C4_Witness ==
    /\ pc = "scanning"
    /\ index = 2
    /\ Normalize(rows[1]).date # None
    /\ Normalize(rows[2]).date = None
    /\ Len(monthly) = 1 /\ monthly[1].orders = 1
    /\ Len(orders) = 2 /\ orders[2].date = <<"-">>
    /\ ValueOf(products, Normalize(rows[2]).productName)
          = Normalize(rows[1]).amount + Normalize(rows[2]).amount

FieldAbsent(body) ==
    \/ body.amount = None
    \/ body.customerName = None
    \/ body.productName = None
    \/ body.date = None
    \/ body.paymentMethod = None

\* C5: a create request with any of the five fields absent is answered 400
\* with the missing-fields error, and no outbound call is made for it.
C5_AbsentFieldRejected ==
    (req.kind = "create" /\ FieldAbsent(req.body)) =>
        /\ outbound = <<>>
        /\ pc # "awaiting"
        /\ pc = "responded" =>
              /\ res[1].status = 400
              /\ res[1].body.status = "error"
              /\ res[1].body.message = "Missing required fields"

\* C5 witness: a create request that lacks only paymentMethod, answered.
C5_Witness ==
    /\ req.kind = "create"
    /\ pc = "responded"
    /\ req.body = [amount |-> Some(JsNumber(100)), customerName |-> Some("Ann"),
                   productName |-> Some("Widget"), date |-> Some(Jan5),
                   paymentMethod |-> None]
    /\ res[1].status = 400
    /\ outbound = <<>>

\* C6: a create request in which all five fields are present is forwarded to
\* the external API (never answered 400 by the validation), whatever values
\* the fields carry, a numeric amount of 0 included.
C6_PresentFieldsForwarded ==
    (req.kind = "create" /\ ~FieldAbsent(req.body) /\ pc = "responded") =>
        /\ Len(outbound) = 1
        /\ upstream # None

FetchFailed ==
    /\ pc = "responded"
    /\ req.kind = "fetch"
    /\ IF upstream = None THEN FALSE
       ELSE \/ ~upstream[1].ok
            \/ \E i \in 1..Len(rows) : Throws(rows[i])

\* C7: whenever the fetch fails (the query is rejected with any status or
\* without a response, or shaping a row throws), the response is 500 with
\* success false and without the monthly, products and orders collections.
C7_FetchFailureIs500 ==
    FetchFailed =>
        /\ res[1].status = 500
        /\ res[1].body.success = FALSE
        /\ DOMAIN res[1].body \cap {"monthly", "products", "orders"} = {}

\* C7 witness: a query the external API rejected with its own status.
C7_Witness ==
    /\ FetchFailed
    /\ upstream # None
    /\ upstream[1].error # NetworkError
    /\ upstream[1].error[1].status = 401
    /\ res[1].status = 500

\* C8: when the outbound create call fails, the response status is the
\* external service's status when the failure carries one and 500 otherwise,
\* and the response's status field is not "success".
C8_CreateFailureStatus ==
    (pc = "responded" /\ req.kind = "create" /\ upstream # None) =>
        IF upstream[1].ok THEN TRUE
        ELSE /\ res[1].status = IF upstream[1].error = NetworkError THEN 500
                                ELSE upstream[1].error[1].status
             /\ res[1].body.status # "success"

\* C8 witness: a create call the external API answered 404.
C8_Witness ==
    /\ pc = "responded" /\ req.kind = "create"
    /\ upstream # None
    /\ ~upstream[1].ok
    /\ upstream[1].error # NetworkError
    /\ upstream[1].error[1].status = 404
    /\ res[1].status = 404

\* The request was turned down by the create handler's validation.
RejectedCreate == req.kind = "create" /\ upstream = None

\* C9: an inbound request makes at most one outbound call: none for health,
\* debug and a rejected create, one for every other answered request; a
\* failed call is not retried, the request is answered after it.
C9_AtMostOneOutboundCall ==
    /\ Len(outbound) <= 1
    /\ pc = "responded" =>
          Len(outbound) = IF req.kind \in {"health", "debug"} \/ RejectedCreate
                          THEN 0 ELSE 1
    /\ (upstream # None /\ ~upstream[1].ok) => pc = "responded"

\* C9 witness: a fetch answered after its one call failed.
C9_Witness ==
    /\ pc = "responded" /\ req.kind = "fetch"
    /\ upstream # None /\ ~upstream[1].ok
    /\ Len(outbound) = 1

\* The sale a submitted form stands for once the external database holds it.
SaleOf(formData) ==
    [amount |-> ParseDigits(formData.amount, 0),
     customerName |-> formData.customerName,
     productName |-> formData.productName,
     date |-> Some(formData.date),
     paymentMethod |-> formData.paymentMethod]

NameValue(buckets) ==
    [k \in 1..Len(buckets) |-> [name |-> buckets[k].name, value |-> buckets[k].value]]

\* C10: every optimistic update leaves the monthly buckets and the product
\* buckets (name, value) as the aggregator's per-sale rule leaves them when
\* it is applied to the same buckets and the same sale.
C10_OptimisticMatchesAggregator ==
    [][ \A formData \in FormInputs :
           HandleFormSubmit(formData) =>
              /\ monthlyData' = StepMonthly(monthlyData, SaleOf(formData))
              /\ NameValue(productData')
                    = NameValue(StepProducts(productData, SaleOf(formData), "#000000"))
      ]_vars

\* A step in which fetchData ends in its catch block.
InitialLoadFailed ==
    /\ fetches # <<>>
    /\ route' = route
    /\ isLoading' = FALSE
    /\ \E i \in 1..Len(fetches) :
          /\ fetches[i].origin = "initial"
          /\ fetches' = RemoveAt(fetches, i)
          /\ IF fetches[i].reply = None THEN FALSE
             ELSE fetches[i].reply[1].kind # "ok"

\* A step in which fetchData ends in its try block.
InitialLoadSucceeded ==
    /\ fetches # <<>>
    /\ route' = route
    /\ isLoading' = FALSE
    /\ \E i \in 1..Len(fetches) :
          /\ fetches[i].origin = "initial"
          /\ fetches' = RemoveAt(fetches, i)
          /\ IF fetches[i].reply = None THEN FALSE
             ELSE fetches[i].reply[1].kind = "ok"

\* The stored item parses and is less than one hour old.
FreshCacheExists ==
    IF cache = None THEN FALSE
    ELSE cache[1].parses /\ clock - cache[1].timestamp < 3600000

\* C11: when the initial fetch fails and a cache entry younger than one hour
\* exists, the user is shown the dashboard with the cached monthly, product
\* and order views; the error screen with Retry is shown only when no fresh
\* cache entry exists.
C11_CachedViewsShownOnFailure ==
    [][InitialLoadFailed =>
          IF FreshCacheExists
          THEN /\ Screen(route', isLoading', error') = "dashboard"
               /\ monthlyData' = cache[1].monthly
               /\ productData' = cache[1].products
               /\ recentOrders' = cache[1].orders
          ELSE Screen(route', isLoading', error') = "error"]_vars

\* C12: a failed initial load leaves monthlyData, productData and recentOrders
\* as they were whenever the cache entry is absent, unparseable, or
\* 3,600,000 ms old or older; with a parseable entry younger than that it
\* loads the entry's three views.
C12_OnlyFreshCacheIsLoaded ==
    [][InitialLoadFailed =>
          IF FreshCacheExists
          THEN /\ monthlyData' = cache[1].monthly
               /\ productData' = cache[1].products
               /\ recentOrders' = cache[1].orders
          ELSE UNCHANGED <<monthlyData, productData, recentOrders>>]_vars

\* C12 witness: an initial load has failed over an entry exactly 3,600,000 ms
\* old that holds views, and the dashboard's views are still empty.
C12_Witness ==
    /\ route = "/"
    /\ error # None
    /\ ~isLoading
    /\ cache # None
    /\ cache[1].parses
    /\ cache[1].orders # <<>>
    /\ clock - cache[1].timestamp = 3600000
    /\ recentOrders = <<>>

\* C13: every submission that passed validation has, once handleSubmit has
\* run to its end, applied the optimistic update exactly once and shown the
\* success notification, whatever the outcome of the create request; and only
\* forms that pass validation are ever sent.
C13_ValidSubmissionAppliedOnce ==
    \A j \in 1..Len(posts) :
        /\ ValidateForm(posts[j].formData)
        /\ posts[j].settled => posts[j].applied = 1 /\ posts[j].showSuccess

\* A step in which the optimistic update of the j-th submission is applied.
OptimisticStep(j) ==
    IF j > Len(posts') THEN FALSE
    ELSE /\ ~posts[j].settled
         /\ posts'[j].settled
         /\ posts'[j].applied = posts[j].applied + 1

\* C14: recentOrders never holds more than 10 entries, and the step that
\* applies an optimistic submission leaves the new sale's entry first,
\* followed by the first 9 of the previous entries in their previous order.
C14_RecentOrdersCapped ==
    [][/\ Len(recentOrders') <= 10
       /\ \A j \in 1..Len(posts) :
             OptimisticStep(j) =>
                LET kept == IF Len(recentOrders) < 9 THEN Len(recentOrders) ELSE 9
                    entry == recentOrders'[1]
                IN /\ Len(recentOrders') = kept + 1
                   /\ entry.customer = posts[j].formData.customerName
                   /\ entry.product = posts[j].formData.productName
                   /\ entry.amount = <<"PHP", ParseDigits(posts[j].formData.amount, 0)>>
                   /\ entry.paymentMethod = posts[j].formData.paymentMethod
                   /\ \A k \in 1..kept : recentOrders'[k + 1] = recentOrders[k]]_vars

\* C14 witness: an optimistic submission was applied to a list of 10 entries
\* and the list again holds 10, the new entry first.
C14_Witness ==
    /\ Len(recentOrders) = 10
    /\ recentOrders[1].id[1] = "new-"
    /\ \E j \in 1..Len(posts) :
          posts[j].settled /\ posts[j].applied = 1 /\ Len(posts[j].recent) = 10

\* The month labels of the dated rows, each once, in order of first occurrence.
RECURSIVE FirstSeenLabels(_, _)
FirstSeenLabels(results, seen) ==
    IF results = <<>> THEN seen
    ELSE LET date == Normalize(results[1]).date
         IN IF date = None THEN FirstSeenLabels(Tail(results), seen)
            ELSE IF \E k \in 1..Len(seen) : seen[k] = MonthLabel(date[1])
                 THEN FirstSeenLabels(Tail(results), seen)
                 ELSE FirstSeenLabels(Tail(results), Append(seen, MonthLabel(date[1])))

\* The number of dated rows with the month label.
RECURSIVE DatedWithLabel(_, _)
DatedWithLabel(results, label) ==
    IF results = <<>> THEN 0
    ELSE LET date == Normalize(results[1]).date
         IN (IF date = None THEN 0 ELSE IF MonthLabel(date[1]) = label THEN 1 ELSE 0)
            + DatedWithLabel(Tail(results), label)

\* C15: at every point of an aggregation run the monthly buckets are, in
\* order, the month labels of the dated rows visited so far in order of first
\* occurrence (so names are pairwise distinct and no bucket is ever moved or
\* removed), each bucket's orders is the number of dated rows visited with
\* its label, and its customers equals its orders.
C15_MonthlyBucketsFirstSeen ==
    LET visited == SubSeq(rows, 1, index)
        labels == FirstSeenLabels(visited, <<>>)
    IN /\ Len(monthly) = Len(labels)
       /\ \A k \in 1..Len(monthly) :
             /\ monthly[k].name = labels[k]
             /\ monthly[k].orders = DatedWithLabel(visited, labels[k])
             /\ monthly[k].customers = monthly[k].orders
       /\ \A k, l \in 1..Len(monthly) : monthly[k].name = monthly[l].name => k = l
       /\ FetchSucceeded => res[1].body.monthly = monthly

\* C15 witness: a response over three dated rows, the first and the last of
\* one month and of the same customer, the second of another month.
C15_Witness ==
    /\ FetchSucceeded
    /\ Len(rows) = 3
    /\ Len(res[1].body.monthly) = 2
    /\ res[1].body.monthly[1].orders = 2
    /\ res[1].body.monthly[1].customers = 2
    /\ Normalize(rows[1]).customerName = Normalize(rows[3]).customerName
    /\ Normalize(rows[2]).date # None
    /\ Normalize(rows[3]).date # None

\* C16, as stated: while a fetch of the dashboard is in flight the user can
\* start a manual refresh, so that two requests are in flight together.
C16_RefreshWhileFetching ==
    (route = "/" /\ fetches # <<>>) => ENABLED RefreshData

\* A step in which a fetch of the dashboard resolves with the gateway's views.
FetchResolvedOk(i) ==
    /\ i <= Len(fetches)
    /\ route' = route
    /\ isLoading' = FALSE
    /\ fetches' = RemoveAt(fetches, i)
    /\ IF fetches[i].reply = None THEN FALSE
       ELSE fetches[i].reply[1].kind = "ok"

\* C16, amended: at most one fetch of the dashboard (initial load or manual
\* refresh) is in flight at a time, because while one is in flight the
\* dashboard renders only the loading screen, which has neither Refresh nor
\* Retry; the monthly, product and order views after it has resolved
\* successfully are those of its response.
C16_OneFetchInFlight ==
    [][/\ Len(fetches') <= 1
       /\ fetches' # <<>> => (route' = "/" /\ isLoading')
       /\ \A i \in 1..Len(fetches) :
             FetchResolvedOk(i) =>
                /\ monthlyData' = fetches[i].reply[1].data.monthly
                /\ productData' = fetches[i].reply[1].data.products
                /\ recentOrders' = fetches[i].reply[1].data.orders]_vars

\* C16 witness: a manual refresh is in flight, started from a dashboard that
\* an earlier fetch had filled, and the gateway has answered it.
C16_Witness ==
    /\ Len(fetches) = 1
    /\ fetches[1].origin = "refresh"
    /\ fetches[1].reply # None
    /\ recentOrders # <<>>
    /\ isLoading

\* C17: a run of the aggregation over the same rows as the previous
\* successful run returns the same monthly buckets, in the same order, and
\* the same product names and values in the same order; nothing of the
\* previous run reaches it.
C17_SameInputSameBuckets ==
    IF lastRun = None THEN TRUE
    ELSE (FetchSucceeded /\ lastRun[1].rows = rows) =>
            /\ res[1].body.monthly = lastRun[1].monthly
            /\ NameValue(res[1].body.products) = NameValue(lastRun[1].products)

\* C17 witness: two runs over the same two rows of different products and
\* months, with different colors drawn.
C17_Witness ==
    /\ FetchSucceeded
    /\ lastRun # None
    /\ lastRun[1].rows = rows
    /\ Len(res[1].body.monthly) = 2
    /\ Len(res[1].body.products) = 2
    /\ res[1].body.products # lastRun[1].products

\* C18: normalizing the row the forEach callback is about to visit does not
\* fail, and gives amount 0, customerName "Unknown", productName "Unknown",
\* paymentMethod "Unknown" and date null for each property the row lacks,
\* and the row's own number, text, date and option name where it has one.
C18_NormalizeNeverFails ==
    (pc = "scanning" /\ index < Len(rows)) =>
        LET page == rows[index + 1]
        IN /\ ~Throws(page)
           /\ page.Amount = None => Normalize(page).amount = 0
           /\ page.Name = None => Normalize(page).customerName = "Unknown"
           /\ page.Product = None => Normalize(page).productName = "Unknown"
           /\ page.Select = None => Normalize(page).paymentMethod = "Unknown"
           /\ page.OrderDate = None => Normalize(page).date = None
           /\ \A n \in {10, 50, 75, 100} :
                 page.Amount = Num(n) => Normalize(page).amount = n
           /\ \A s \in {"Ann", "Bob"} :
                 page.Name = Text(s) => Normalize(page).customerName = s
           /\ \A s \in {"Widget", "Gadget"} :
                 page.Product = Text(s) => Normalize(page).productName = s
           /\ \A s \in {"Cash", "GCash"} :
                 page.Select = SelectName(s) => Normalize(page).paymentMethod = s
           /\ \A d \in {Jan5, Jan20, Feb1} :
                 page.OrderDate = DateStart(d) => Normalize(page).date = Some(d)

\* The displayed monthly revenue and order counts and the displayed product
\* values are those of the rows of the database.
ShowsRows(monthlyView, productView, results) ==
    LET data == Aggregate(results, [k \in 1..Len(results) |-> "#1a2b3c"], 0, EmptyViews)
    IN /\ Len(monthlyView) = Len(data.monthly)
       /\ \A k \in 1..Len(monthlyView) :
             /\ monthlyView[k].name = data.monthly[k].name
             /\ monthlyView[k].revenue = data.monthly[k].revenue
             /\ monthlyView[k].orders = data.monthly[k].orders
       /\ NameValue(productView) = NameValue(data.products)

\* C19: when a refresh started while the create request of the only
\* submission was in flight has put on display views that already contain
\* the created sale, the end of handleSubmit leaves the sale counted once:
\* the displayed monthly revenue, order counts and product values are still
\* those of the database.
C19_RefreshedSaleCountedOnce ==
    [][\A j \in 1..Len(posts) :
          (/\ Len(posts) = 1
           /\ OptimisticStep(j)
           /\ posts[j].reply = Some("ok")
           /\ ShowsRows(monthlyData, productData, db))
          => ShowsRows(monthlyData', productData', db)]_vars

\* C20: the stored cache entry changes only in the step in which an initial
\* load succeeds, and then it holds the three views of that load and the time
\* of the step; a failed initial load, a refresh however it ends, a
\* submission and its optimistic update leave it as it is.
C20_CacheWrittenByInitialLoadOnly ==
    [][IF InitialLoadSucceeded
       THEN cache' = Some([parses |-> TRUE, monthly |-> monthlyData',
                           products |-> productData', orders |-> recentOrders',
                           timestamp |-> clock])
       ELSE cache' = cache]_vars

\* C20 witness: after a successful initial load wrote the entry, a refresh
\* has succeeded over a database that a submission had changed, and the
\* views differ from the entry.
C20_Witness ==
    /\ route = "/"
    /\ ~isLoading
    /\ fetches = <<>>
    /\ error = None
    /\ cache # None
    /\ cache[1].parses
    /\ cache[1].orders # <<>>
    /\ \E j \in 1..Len(posts) : posts[j].reply = Some("ok") /\ ~posts[j].settled
    /\ ShowsRows(monthlyData, productData, db)
    /\ monthlyData # cache[1].monthly

\* A step in which the i-th fetch, a refresh or Retry, settles.
RefreshSettled(i) ==
    /\ i <= Len(fetches)
    /\ route' = route
    /\ fetches[i].origin = "refresh"
    /\ fetches[i].reply # None
    /\ fetches' = RemoveAt(fetches, i)
    /\ posts' = posts

\* C21: the step that settles a refresh or Retry ends loading; it leaves an
\* error set exactly when the request threw (network failure or unparseable
\* body); when the gateway answered success false it leaves monthlyData,
\* productData and recentOrders as they were and no error set, so after a
\* Retry the error screen is left without new data.
C21_RefreshErrorOnlyOnThrow ==
    [][\A i \in 1..Len(fetches) :
          RefreshSettled(i) =>
             LET kind == fetches[i].reply[1].kind
             IN /\ ~isLoading'
                /\ (error' # None) <=> (kind \in {"network", "garbled"})
                /\ kind = "error" =>
                      UNCHANGED <<monthlyData, productData, recentOrders>>]_vars

\* C21 witness: the initial load failed without a cache entry, Retry was
\* answered with success false, and the dashboard is shown, empty, over a
\* database that has rows.
C21_Witness ==
    /\ Screen(route, isLoading, error) = "dashboard"
    /\ fetches = <<>>
    /\ cache = None
    /\ submits = 0
    /\ db # <<>>
    /\ monthlyData = <<>>
    /\ productData = <<>>
    /\ recentOrders = <<>>

====
